---- MODULE Spec2Model ----
(***************************************************************************)
(* Law-of-the-wall notebook: the model function loglayer and the fit       *)
(* p, pcov = curve_fit(loglayer, df['z(cm)'], df['u(cm/s)']).              *)
(*                                                                         *)
(* Numbers are fixed point.  Velocities are integers in units of 1/Scale   *)
(* cm/s, parameters are integers in units of 1/ParScale, logarithms are    *)
(* integers in units of 1/LnScale.  The floats nan and inf are two         *)
(* integers outside the range of every finite value.                       *)
(*                                                                         *)
(* The second part models the two notebooks as kernel sessions, cell by    *)
(* cell, with the values of the law-of-the-wall notebook at the resolution *)
(* of its recorded outputs (1e-5), and pd.read_table of the diatom         *)
(* notebook on files given as their lines.                                 *)
(***************************************************************************)
EXTENDS Integers, Sequences, FiniteSets, TLC

VARIABLES
    heap,   \* heap[i]: the arrays caller i owns: columns z, u and the guess p0
    call,   \* call[i]: the arguments as they were when caller i called curve_fit
    fr,     \* fr[i]: the frame of caller i's curve_fit call
    res,    \* res[i]: what caller i's cell got: (p, pcov) or the exception
    ns,     \* the kernel's globals ustar and zo
    memo,   \* the fits that ended: pairs <<arguments, outcome>>
    fits,   \* number of curve_fit calls made so far
    par,    \* the callers whose current fit ran while another fit was running
    tick,   \* tick[i]: flips each time the scheduler runs caller i for a step
    kernel, \* the kernel of a notebook session: names bound, values, last output
    disk    \* disk[f]: the lines of experiment file f

vars == <<heap, call, fr, res, ns, memo, fits, par, tick, kernel, disk>>

Scale == 10
ParScale == 20
LnScale == 1000
Ln2 == 693
Kappa == 410

NaN == -1073741823
Inf == 1073741823
None == "None"

IsNum(v) == v # NaN /\ v # Inf
Abs(v) == IF v < 0 THEN -v ELSE v

\* LnScale * ln(m/d) for d <= m < 2d, by 2*atanh((m-d)/(m+d)).
LnMantissa(m, d) ==
    LET t  == ((m - d) * LnScale) \div (m + d)
        t2 == (t * t) \div LnScale
        t3 == (t2 * t) \div LnScale
        t5 == (t3 * t2) \div LnScale
    IN  2 * t + (2 * t3) \div 3 + (2 * t5) \div 5

RECURSIVE LnRatio(_, _)
\* LnScale * ln(n/d) for integers n, d > 0: what np.log returns on a positive ratio.
LnRatio(n, d) ==
    IF n >= 2 * d THEN Ln2 + LnRatio(n, 2 * d)
    ELSE IF n < d THEN LnRatio(2 * n, d) - Ln2
    ELSE LnMantissa(n, d)

(***************************************************************************)
(* u = ustar/0.41 * np.log(z/zo) at one height z (cm); ustar and zo in     *)
(* 1/ParScale.  numpy raises nothing: z/0 is inf, the log of a negative    *)
(* ratio is nan (with a RuntimeWarning), and both propagate.               *)
(***************************************************************************)
LogLaw(z, ustar, zo) ==
    IF zo = 0 THEN Inf
    ELSE IF z = 0 THEN Inf
    ELSE IF (z < 0) # (zo < 0) THEN NaN
    ELSE (ustar * Scale * LnRatio(Abs(z) * ParScale, Abs(zo))) \div (Kappa * ParScale)

\* loglayer with a body that reads the kernel's zo once the cell has set it
loglayer1_kernel_zo(z, ustar, zo) ==
    LogLaw(z, ustar, IF ns.bound /\ ns.zo > 0 THEN ns.zo ELSE zo)

\* loglayer with ustar read from the kernel's global of that name
loglayer1_global(z, ustar, zo) == LogLaw(z, IF ns.bound THEN ns.ustar ELSE ustar, zo)

loglayer1(z, ustar, zo) == LogLaw(z, ustar, zo)

loglayer(z, ustar, zo) == [i \in 1..Len(z) |-> loglayer1(z[i], ustar, zo)]


Max(a, b) == IF a >= b THEN a ELSE b
Min(a, b) == IF a <= b THEN a ELSE b
Clip(v, lo, hi) == Max(lo, Min(hi, v))

\* the element of a one-element set
One(S) == CHOOSE v \in S : TRUE

RECURSIVE SumTo(_, _)
\* f[1] + ... + f[k]
SumTo(f, k) == IF k = 0 THEN 0 ELSE f[k] + SumTo(f, k - 1)

AllNum(s) == \A i \in 1..Len(s) : IsNum(s[i])

(***************************************************************************)
(* func_wrapped(params) = func(xdata, *params) - ydata, with numpy         *)
(* broadcasting: the Series f(z) and the array u have equal length, or u   *)
(* has length 1 and is stretched over the Series.                          *)
(***************************************************************************)
Broadcastable(z, u) == Len(z) = Len(u) \/ Len(u) = 1

At(s, i) == IF Len(s) = 1 THEN s[1] ELSE s[i]

func_wrapped(z, u, x) ==
    [i \in 1..Max(Len(z), Len(u)) |->
        One({ IF IsNum(f) THEN f - At(u, i) ELSE f
              : f \in {loglayer1(At(z, i), x[1], x[2])} })]

\* sum of squared residuals; not a number once a residual is not finite
Cost(fvec) ==
    IF AllNum(fvec) THEN SumTo([i \in 1..Len(fvec) |-> fvec[i] * fvec[i]], Len(fvec))
    ELSE NaN

(***************************************************************************)
(* fdjac2: forward-difference Jacobian, one extra evaluation per           *)
(* parameter; the step h is one parameter unit.  J[j][i] = d fvec[i]/dx[j] *)
(***************************************************************************)
Bump(x, j) == [x EXCEPT ![j] = x[j] + 1]

fdjac2(z, u, x, fvec) ==
    [j \in 1..2 |->
        LET fh == func_wrapped(z, u, Bump(x, j))
        IN  [i \in 1..Len(fvec) |->
                IF IsNum(fh[i]) /\ IsNum(fvec[i]) THEN fh[i] - fvec[i] ELSE NaN]]

JNum(J) == AllNum(J[1]) /\ AllNum(J[2])

Dot(a, b) == SumTo([i \in 1..Len(a) |-> a[i] * b[i]], Len(a))

\* the normal equations: A = J^T J as <<a11, a12, a22>>, g = J^T fvec
JTJ(J) == <<Dot(J[1], J[1]), Dot(J[1], J[2]), Dot(J[2], J[2])>>
JTr(J, fvec) == <<Dot(J[1], fvec), Dot(J[2], fvec)>>

\* |fvec + J p|^2, the linearised sum of squares at step p
Lin(c, g, A, p) ==
    c + 2 * (g[1] * p[1] + g[2] * p[2])
      + A[1] * p[1] * p[1] + 2 * A[2] * p[1] * p[2] + A[3] * p[2] * p[2]

\* p' A p = |J p|^2
Quad(A, p) == A[1] * p[1] * p[1] + 2 * A[2] * p[1] * p[2] + A[3] * p[2] * p[2]

PNorm(p) == Max(Abs(p[1]), Abs(p[2]))

(***************************************************************************)
(* lmpar: the step that minimises the linearised sum of squares inside the *)
(* trust region of radius delta (here the box |p[j]| <= delta on the       *)
(* parameter grid).  For each p[1] the best p[2] is next to the vertex of  *)
(* the parabola.  Ties go to the shortest step.                            *)
(***************************************************************************)
\* for a given p[1], the better of the two grid points next to the vertex
Vertex(g, A, delta, p1) ==
    IF A[3] > 0 THEN Clip((-(g[2] + A[2] * p1)) \div A[3], -delta, delta) ELSE 0

StepKey(c, g, A, p) == <<Lin(c, g, A, p), Abs(p[1]) + Abs(p[2]), p[1], p[2]>>

BestAt(c, g, A, delta, p1) ==
    One({ One({ IF k[2][1] < k[1][1] \/ (k[2][1] = k[1][1] /\ k[2][2] < k[1][2])
                THEN k[2] ELSE k[1]
                : k \in {<<StepKey(c, g, A, <<p1, lo>>),
                           StepKey(c, g, A, <<p1, IF A[3] > 0
                                                  THEN Clip(lo + 1, -delta, delta)
                                                  ELSE 0>>)>>} })
          : lo \in {Vertex(g, A, delta, p1)} })

KeyLess(a, b) ==
    \/ a[1] < b[1]
    \/ a[1] = b[1] /\ a[2] < b[2]
    \/ a[1] = b[1] /\ a[2] = b[2] /\ a[3] < b[3]

RECURSIVE BestIn(_, _, _, _, _, _)
\* the best step with p[1] in lo..hi
BestIn(c, g, A, delta, lo, hi) ==
    IF lo = hi THEN BestAt(c, g, A, delta, lo)
    ELSE One({ IF KeyLess(lr[2], lr[1]) THEN lr[2] ELSE lr[1]
               : lr \in {<<BestIn(c, g, A, delta, lo, (lo + hi) \div 2),
                           BestIn(c, g, A, delta, (lo + hi) \div 2 + 1, hi)>>} })

lmpar(c, g, A, delta) ==
    LET best == BestIn(c, g, A, delta, -delta, delta)
    IN  <<best[3], best[4]>>

(***************************************************************************)
(* Defaults of the call curve_fit(loglayer, z, u): leastsq's ftol = xtol = *)
(* 1.49012e-8 = 2^-26, gtol = 0, factor = 100.  maxfev = 200*(n+1) in the  *)
(* library; the model caps it at MaxFev.  MaxStep caps the trust region.   *)
(***************************************************************************)
FTolInv == 67108864
XTolInv == 67108864
Factor == 100
MaxFev == 24
MaxStep == 40
MaxFits == 2

Procs == {1, 2}

\* number of parameters loglayer(z, ustar, zo) takes after z
NParams == 2

NoFrame ==
    [pc |-> "idle", n |-> 0, x |-> <<>>, xj |-> <<>>, fvec |-> <<>>, c |-> 0,
     delta |-> 0, iter |-> 0, nfev |-> 0, info |-> 0, warn |-> {},
     alias |-> FALSE, exc |-> None, evals |-> 0]

XNorm(x) == Max(Abs(x[1]), Abs(x[2]))

\* warnings numpy and scipy print while a fit runs
WarnOf(fvec) == IF AllNum(fvec) THEN {} ELSE {"RuntimeWarning"}

(***************************************************************************)
(* curve_fit up to the call of leastsq: the number of parameters, the      *)
(* default guess, and the checks on ydata.                                 *)
(***************************************************************************)
\* p0 is None: n from loglayer's signature and a guess of ones
GuessLen(p0) == IF ~p0.given THEN NParams ELSE Len(p0.v)

\* a fit without a guess warm-started from the kernel's last ustar, zo
StartPoint_warm(p0) ==
    IF p0.given THEN p0.v
    ELSE IF ns.bound THEN <<ns.ustar, ns.zo>>
    ELSE [j \in 1..NParams |-> ParScale]

StartPoint(p0) == IF ~p0.given THEN [j \in 1..NParams |-> ParScale] ELSE p0.v

curve_fit_enter(f, a) ==
    LET n == GuessLen(a.p0)
    IN  IF ~AllNum(a.u) THEN [f EXCEPT !.pc = "finish", !.exc = "ValueError"]
        ELSE IF Len(a.u) = 0 THEN [f EXCEPT !.pc = "finish", !.exc = "ValueError"]
        ELSE IF Len(a.u) # 1 /\ n > Len(a.u)
             THEN [f EXCEPT !.pc = "finish", !.exc = "TypeError"]
        ELSE [f EXCEPT !.pc = "leastsq", !.n = n, !.x = StartPoint(a.p0)]

(***************************************************************************)
(* leastsq before the iteration: x0 = asarray(x0).flatten() is a copy of   *)
(* the caller's guess; _check_func evaluates the residuals once.           *)
(***************************************************************************)
\* ravel() in place of flatten(): a view of the caller's array
Flatten_view(p0) == [alias |-> TRUE, x |-> p0]

Flatten(p0) == [alias |-> FALSE, x |-> p0]

\* loglayer(z, ustar, zo) as if declared loglayer(z, ustar, zo, *rest)
CallArityOk_varargs(n) == n >= NParams

\* Python binds func(xdata, *params) only when params has loglayer's arity
CallArityOk(n) == n = NParams

leastsq_check(f, a) ==
    LET x0 == Flatten(f.x)
    IN  IF ~CallArityOk(f.n) THEN [f EXCEPT !.pc = "finish", !.exc = "TypeError"]
        ELSE IF ~Broadcastable(a.z, a.u)
             THEN [f EXCEPT !.pc = "finish", !.exc = "ValueError", !.evals = 1]
        ELSE IF f.n > Max(Len(a.z), Len(a.u))
             THEN [f EXCEPT !.pc = "finish", !.exc = "TypeError", !.evals = 1]
        ELSE LET fvec == func_wrapped(a.z, a.u, x0.x)
             IN  [f EXCEPT !.pc = "fdjac2", !.x = x0.x, !.alias = x0.alias,
                           !.fvec = fvec, !.c = Cost(fvec), !.nfev = 1,
                           !.iter = 1, !.info = 0, !.warn = WarnOf(fvec),
                           !.evals = 1]

(***************************************************************************)
(* lmdif, head of the outer loop: the Jacobian at x (n more evaluations),  *)
(* on the first pass the step bound delta = factor * xnorm, then the       *)
(* gradient test gnorm <= gtol, which with gtol = 0 fires when the norm of *)
(* the scaled gradient is 0: fvec = 0, J^T fvec = 0, or nothing finite to  *)
(* compare (the maximum over NaN terms stays 0).                           *)
(***************************************************************************)
InitialDelta(x) ==
    Min(IF XNorm(x) = 0 THEN Factor ELSE Factor * XNorm(x), MaxStep)

GNormZero(c, J, fvec) ==
    \/ ~IsNum(c)
    \/ ~JNum(J)
    \/ c = 0
    \/ JTr(J, fvec) = <<0, 0>>

lmdif_outer(f, a) ==
    One({ [f EXCEPT !.xj = f.x, !.nfev = f.nfev + f.n, !.evals = f.evals + f.n,
                    !.delta = IF f.iter = 1 THEN InitialDelta(f.x) ELSE f.delta,
                    !.info = IF gz THEN 4 ELSE 0,
                    !.pc = IF gz THEN "finish" ELSE "lmpar"]
          : gz \in {GNormZero(f.c, fdjac2(a.z, a.u, f.x, f.fvec), f.fvec)} })

(***************************************************************************)
(* lmdif, one pass of the inner loop: the trial point x + p, its sum of    *)
(* squares, the ratio actred/prered of actual to predicted reduction, the  *)
(* new step bound, acceptance of the trial point when ratio >= 0.0001, and *)
(* the tests for termination.  act and pre are actred*c and prered*c.      *)
(***************************************************************************)
\* actred = -1 unless 0.1*fnorm1 < fnorm; a NaN sum of squares compares false
ActRed(c, c1) == IF ~IsNum(c1) \/ c1 >= 100 * c THEN -c ELSE c - c1

RatioLeQuarter(act, pre) == pre = 0 \/ 4 * act <= pre
RatioGeThreeQuarters(act, pre) == pre # 0 /\ 4 * act >= 3 * pre
\* an optimizer that takes every finite trial step, uphill or not
Successful_any(act, pre) == pre # 0

\* ratio >= 0.0001: the step is successful
Successful(act, pre) == pre # 0 /\ act > 0 /\ act >= (pre + 9999) \div 10000

\* temp, in tenths: 0.5, or 0.5*dirder/(dirder + 0.5*actred), at least 0.1
Temp10(c, c1, act, pre, quad) ==
    IF ~IsNum(c1) \/ c1 >= 100 * c THEN 1
    ELSE IF act >= 0 THEN 5
    ELSE Max(1, (5 * (pre + quad)) \div ((pre + quad) - act))

NewDelta(delta, pnorm, c, c1, act, pre, quad) ==
    IF RatioLeQuarter(act, pre)
    THEN (Temp10(c, c1, act, pre, quad) * Min(delta, 10 * pnorm)) \div 10
    ELSE IF pnorm < delta \/ RatioGeThreeQuarters(act, pre)
    THEN Min(2 * pnorm, MaxStep)
    ELSE delta

\* ftol = 1: any reduction counts as convergence
FTolHit_loose(c, act, pre) ==
    /\ Abs(act) <= c
    /\ pre <= c
    /\ (pre = 0 \/ act <= 2 * pre)

FTolHit(c, act, pre) ==
    /\ Abs(act) <= c \div FTolInv
    /\ pre <= c \div FTolInv
    /\ (pre = 0 \/ act <= 2 * pre)

XTolHit(delta, x) == delta <= XNorm(x) \div XTolInv

\* the tests without the evaluation budget
Info_nobudget(ftol, xtol, nfev) ==
    IF ftol /\ xtol THEN 3
    ELSE IF ftol THEN 1
    ELSE IF xtol THEN 2
    ELSE 0

Info(ftol, xtol, nfev) ==
    IF ftol /\ xtol THEN 3
    ELSE IF ftol THEN 1
    ELSE IF xtol THEN 2
    ELSE IF nfev >= MaxFev THEN 5
    ELSE 0

\* the frame after a trial at xt with residuals ft, cost c1, step norm pnorm
lmdif_update(f, xt, ft, c1, pnorm, act, pre, delta2, ok) ==
    [f EXCEPT !.x = IF ok THEN xt ELSE f.x,
              !.fvec = IF ok THEN ft ELSE f.fvec,
              !.c = IF ok THEN c1 ELSE f.c,
              !.iter = IF ok THEN f.iter + 1 ELSE f.iter,
              !.delta = delta2,
              !.nfev = f.nfev + 1,
              !.evals = f.evals + 1,
              !.warn = f.warn \cup WarnOf(ft),
              !.info = Info(FTolHit(f.c, act, pre),
                            XTolHit(delta2, IF ok THEN xt ELSE f.x), f.nfev + 1),
              !.pc = IF Info(FTolHit(f.c, act, pre),
                             XTolHit(delta2, IF ok THEN xt ELSE f.x), f.nfev + 1) # 0
                     THEN "finish"
                     ELSE IF ok THEN "fdjac2" ELSE "lmpar"]

lmdif_judge(f, A, p, xt, ft, c1, pnorm, delta1, act, pre) ==
    One({ lmdif_update(f, xt, ft, c1, pnorm, act, pre, d, Successful(act, pre))
          : d \in {NewDelta(delta1, pnorm, f.c, c1, act, pre, Quad(A, p))} })

lmdif_eval(f, a, A, g, p, xt) ==
    One({ One({ lmdif_judge(f, A, p, xt, ft, t[1], PNorm(p),
                            IF f.iter = 1 THEN Min(f.delta, PNorm(p)) ELSE f.delta,
                            t[2], t[3])
                : t \in {<<Cost(ft), ActRed(f.c, Cost(ft)), f.c - Lin(f.c, g, A, p)>>} })
          : ft \in {func_wrapped(a.z, a.u, xt)} })

lmdif_trial(f, a, A, g) ==
    One({ lmdif_eval(f, a, A, g, p, <<f.x[1] + p[1], f.x[2] + p[2]>>)
          : p \in {lmpar(f.c, g, A, f.delta)} })

lmdif_step(f, a, A0, g0) ==
    One({ lmdif_trial(f, a, Ag[1], Ag[2]) : Ag \in {<<A0, g0>>} })

lmdif_inner(f, a) ==
    One({ lmdif_step(f, a, JTJ(J), JTr(J, f.fvec))
          : J \in {fdjac2(a.z, a.u, f.x, f.fvec)} })

(***************************************************************************)
(* Back in curve_fit: ier outside 1..4 raises RuntimeError("Optimal        *)
(* parameters not found"); otherwise pcov = cov_x * cost/(m - n), filled   *)
(* with inf (and an OptimizeWarning) when cov_x is None or NaN or when     *)
(* m <= n.  cov_x = inv(J^T J) for the Jacobian lmdif computed last.       *)
(***************************************************************************)
\* the fill as one entry, not n by n
InfMatrix_single(n) == << <<Inf>> >>

InfMatrix(n) == [j \in 1..n |-> [k \in 1..n |-> Inf]]

CovX(f, a) ==
    One({ One({ [ok |-> JNum(J) /\ A[1] * A[3] - A[2] * A[2] # 0,
                 A |-> A, det |-> A[1] * A[3] - A[2] * A[2]]
                : A \in {IF JNum(J) THEN JTJ(J) ELSE <<0, 0, 0>>} })
          : J \in {fdjac2(a.z, a.u, f.xj, func_wrapped(a.z, a.u, f.xj))} })

Scaled(cov, s_sq) ==
    << <<(cov.A[3] * s_sq) \div cov.det, (-cov.A[2] * s_sq) \div cov.det>>,
       <<(-cov.A[2] * s_sq) \div cov.det, (cov.A[1] * s_sq) \div cov.det>> >>

PCov(f, a) ==
    One({ IF ~cov.ok \/ ~IsNum(f.c) THEN InfMatrix(f.n)
          ELSE IF Len(f.fvec) > f.n THEN Scaled(cov, f.c \div (Len(f.fvec) - f.n))
          ELSE InfMatrix(f.n)
          : cov \in {CovX(f, a)} })

Raised(kind) == [kind |-> kind, p |-> <<>>, pcov |-> <<>>]

\* ier = 5 taken for a success as well
Converged_any(info) == info \in 1..5

\* if ier not in [1, 2, 3, 4]: raise RuntimeError
Converged(info) == info \in 1..4

curve_fit_outcome(f, a) ==
    IF f.exc # None THEN Raised(f.exc)
    ELSE IF ~Converged(f.info) THEN Raised("RuntimeError")
    ELSE [kind |-> "ok", p |-> f.x, pcov |-> PCov(f, a)]

(***************************************************************************)
(* The arguments callers pass.  Heights are cm, velocities 1/Scale cm/s,   *)
(* guesses 1/ParScale.  The first z and u are the notebook's df columns.   *)
(***************************************************************************)
Zs == { <<22, 55, 89, 123>>, <<22, 55>>, <<22>> }
Us == { <<418, 504, 550, 584>>, <<418, 504, 550>>, <<418, 504>>, <<418>>, <<>> }
NoGuess == [given |-> FALSE, v |-> <<>>]
Guess(v) == [given |-> TRUE, v |-> v]
Guesses ==
    {NoGuess} \cup
    {Guess(v) : v \in {<<80, 5>>, <<40, 10>>, <<370, 5>>, <<20, -20>>, <<20, 0>>,
                          <<80, 5, 20>>, <<80>>}}

Literal == [z |-> <<22, 55, 89, 123>>, u |-> <<418, 504, 550, 584>>]

\* caller 1 fits any of the sample sets or starts from any of the guesses;
\* caller 2 fits the notebook's data
ArgsOf(i) ==
    IF i = 1
    THEN [z : {Literal.z}, u : {Literal.u}, p0 : Guesses]
         \cup [z : Zs, u : Us, p0 : {NoGuess}]
    ELSE [z : {Literal.z}, u : {Literal.u}, p0 : {NoGuess, Guess(<<40, 10>>)}]

\* no notebook session is open
Idle == [nb |-> "none", names |-> {}, next |-> 0, last |-> 0, exc |-> "none"]

\* the names p and pcov before any fit has returned
Unbound == [bound |-> FALSE, p |-> <<>>, pcov |-> <<>>]

Init ==
    /\ heap \in {h \in [Procs -> UNION {ArgsOf(i) : i \in Procs}] :
                    \A i \in Procs : h[i] \in ArgsOf(i)}
    /\ call = heap
    /\ fr = [i \in Procs |-> NoFrame]
    /\ res = [i \in Procs |-> Unbound]
    /\ ns = [bound |-> FALSE, ustar |-> 0, zo |-> 0]
    /\ memo = {}
    /\ fits = 0
    /\ par = {}
    /\ tick = [i \in Procs |-> FALSE]
    /\ kernel = Idle
    /\ disk = <<>>

\* the caller is inside curve_fit
InFit(f) == f.pc \in {"curve_fit", "leastsq", "fdjac2", "lmpar", "finish"}

\* the caller calls curve_fit(loglayer, z, u[, p0]) on its arrays
Call(i) ==
    /\ fr[i].pc = "idle"
    /\ fits < MaxFits
    /\ call' = [call EXCEPT ![i] = heap[i]]
    /\ fr' = [fr EXCEPT ![i] = [NoFrame EXCEPT !.pc = "curve_fit"]]
    /\ fits' = fits + 1
    /\ par' = IF \E j \in Procs \ {i} : InFit(fr[j])
              THEN par \cup {i} \cup {j \in Procs : InFit(fr[j])}
              ELSE par \ {i}
    /\ UNCHANGED <<heap, res, ns, memo>>

\* a working vector that aliases the caller's guess writes through to it
HeapAfter(h, f) ==
    IF f.alias /\ h.p0.given /\ f.x # <<>> THEN [h EXCEPT !.p0 = Guess(f.x)] ELSE h

\* a fit that hands each iterate to its caller as it goes
Advance_publish(i, f0) ==
    \E f \in {f0} :
        /\ fr' = [fr EXCEPT ![i] = f]
        /\ heap' = [heap EXCEPT ![i] = HeapAfter(heap[i], f)]
        /\ res' = IF Len(f.x) = NParams
                  THEN [res EXCEPT ![i] = [bound |-> TRUE, p |-> f.x, pcov |-> <<>>]]
                  ELSE res
        /\ UNCHANGED <<call, ns, memo, fits, par>>

Advance(i, f0) ==
    \E f \in {f0} :
        /\ fr' = [fr EXCEPT ![i] = f]
        /\ heap' = [heap EXCEPT ![i] = HeapAfter(heap[i], f)]
        /\ UNCHANGED <<call, res, ns, memo, fits, par>>

CurveFitEnter(i) ==
    /\ fr[i].pc = "curve_fit"
    /\ Advance(i, curve_fit_enter(fr[i], heap[i]))

LeastsqCheck(i) ==
    /\ fr[i].pc = "leastsq"
    /\ Advance(i, leastsq_check(fr[i], heap[i]))

LmdifOuter(i) ==
    /\ fr[i].pc = "fdjac2"
    /\ Advance(i, lmdif_outer(fr[i], heap[i]))

LmdifInner(i) ==
    /\ fr[i].pc = "lmpar"
    /\ Advance(i, lmdif_inner(fr[i], heap[i]))

\* p, pcov = curve_fit(...): both names are bound when the call returns;
\* an exception leaves them as they were
CurveFitReturn(i) ==
    /\ fr[i].pc = "finish"
    /\ \E out \in {curve_fit_outcome(fr[i], heap[i])} :
           /\ res' = IF out.kind = "ok"
                     THEN [res EXCEPT ![i] = [bound |-> TRUE, p |-> out.p, pcov |-> out.pcov]]
                     ELSE res
           /\ memo' = memo \cup {<<call[i], out>>}
           /\ fr' = [fr EXCEPT ![i].pc = "done", ![i].exc = out.kind]
    /\ UNCHANGED <<heap, call, ns, fits, par>>

\* the cell  ustar = p[0]; zo = p[1]
CellUstarZo(i) ==
    /\ fr[i].pc = "done"
    /\ fr[i].exc = "ok"
    /\ ns' = [bound |-> TRUE, ustar |-> res[i].p[1], zo |-> res[i].p[2]]
    /\ fr' = [fr EXCEPT ![i].pc = "idle"]
    /\ UNCHANGED <<heap, call, res, memo, fits, par>>

\* the traceback ends the cell; the kernel is ready for the next one
CellFailed(i) ==
    /\ fr[i].pc = "done"
    /\ fr[i].exc # "ok"
    /\ fr' = [fr EXCEPT ![i].pc = "idle"]
    /\ UNCHANGED <<heap, call, res, ns, memo, fits, par>>

FitStep(i) ==
    \/ CurveFitEnter(i)
    \/ LeastsqCheck(i)
    \/ LmdifOuter(i)
    \/ LmdifInner(i)
    \/ CurveFitReturn(i)

\* the scheduler runs caller i for one step
Run(i) ==
    /\ tick' = [tick EXCEPT ![i] = ~tick[i]]
    /\ \/ Call(i)
       \/ FitStep(i)
       \/ CellUstarZo(i)
       \/ CellFailed(i)
    /\ UNCHANGED <<kernel, disk>>

Next == \E i \in Procs : Run(i)

\* caller i is run while it is inside curve_fit
Scheduled(i) == InFit(fr[i]) /\ tick' = [tick EXCEPT ![i] = ~tick[i]]

Spec == Init /\ [][Next]_vars

\* a caller inside curve_fit is never left waiting for ever: the call is
\* synchronous and the interpreter keeps running the thread that made it
FairSpec == Spec /\ \A i \in Procs : WF_tick(Scheduled(i))

(***************************************************************************)
(* One fit run start to end with nothing else running: the composition of  *)
(* the steps of curve_fit on a frame of its own.                           *)
(***************************************************************************)
FitOp(f, a) ==
    CASE f.pc = "curve_fit" -> curve_fit_enter(f, a)
      [] f.pc = "leastsq" -> leastsq_check(f, a)
      [] f.pc = "fdjac2" -> lmdif_outer(f, a)
      [] f.pc = "lmpar" -> lmdif_inner(f, a)

RECURSIVE RunAlone(_, _)
RunAlone(f, a) ==
    IF f.pc = "finish" THEN curve_fit_outcome(f, a)
    ELSE One({RunAlone(g, a) : g \in {FitOp(f, a)}})

Alone(a) == RunAlone([NoFrame EXCEPT !.pc = "curve_fit"], a)

\* what caller i's call gave it once the call has ended
Outcome(i) ==
    IF fr[i].exc = "ok"
    THEN [kind |-> "ok", p |-> res[i].p, pcov |-> res[i].pcov]
    ELSE Raised(fr[i].exc)

Done(i) == fr[i].pc = "done"
Iterating(i) == fr[i].pc \in {"fdjac2", "lmpar"}
BadRoughness(a) == a.p0.given /\ Len(a.p0.v) = NParams /\ a.p0.v[2] <= 0
WrongArity(a) == a.p0.given /\ Len(a.p0.v) # NParams

(***************************************************************************)
(* C1.  A fit started from a guess whose roughness length zo is zero or    *)
(* negative ends in an error: it never returns normally.  The code returns *)
(* normally from such a guess, so this does not hold.                      *)
(***************************************************************************)
C1_BadGuessIsAnError ==
    \A i \in Procs : (Done(i) /\ BadRoughness(call[i])) => fr[i].exc # "ok"

(***************************************************************************)
(* C2.  Once an evaluation of the model has produced a non-number (the     *)
(* RuntimeWarning of np.log), the fit does not go on iterating and does    *)
(* not return normally.  The code goes on, so this does not hold.          *)
(***************************************************************************)
C2_InvalidEvaluationEndsTheFit ==
    \A i \in Procs :
        "RuntimeWarning" \in fr[i].warn =>
            /\ ~Iterating(i)
            /\ fr[i].pc \in {"done", "idle"} => fr[i].exc # "ok"

(***************************************************************************)
(* C3.  A fit called with x and y of different lengths ends in a           *)
(* ValueError and never reaches the iteration.  A y of one sample is       *)
(* broadcast over x by the code, so this does not hold.                    *)
(***************************************************************************)
C3_MismatchedLengthsAreAnError ==
    \A i \in Procs :
        Len(call[i].z) # Len(call[i].u) =>
            /\ ~Iterating(i)
            /\ Done(i) => fr[i].exc = "ValueError"

(***************************************************************************)
(* C4.  A fit called with a guess that has not as many entries as loglayer *)
(* has parameters raises TypeError before the model is evaluated once and  *)
(* before the iteration starts.                                            *)
(***************************************************************************)
C4_WrongArityFailsFast ==
    \A i \in Procs :
        WrongArity(call[i]) =>
            /\ ~Iterating(i)
            /\ fr[i].evals = 0 /\ fr[i].nfev = 0 /\ fr[i].iter = 0
            /\ fr[i].pc \in {"finish", "done"} => fr[i].exc = "TypeError"

C4_Witness ==
    \E i \in Procs :
        /\ Done(i) /\ WrongArity(call[i])
        /\ Len(call[i].p0.v) > NParams
        /\ fr[i].exc = "TypeError"

(***************************************************************************)
(* C5.  A fit that has used up its evaluation budget (ier = 5) ends in one *)
(* step with RuntimeError: p and pcov stay as they were, and the fit is    *)
(* not started again unless the caller calls again.                        *)
(***************************************************************************)
C5_BudgetExhaustedRaises ==
    [][\A i \in Procs :
        /\ (fr[i].pc = "finish" /\ fr[i].info = 5 /\ fr'[i] # fr[i]) =>
              /\ fr'[i].pc = "done" /\ fr'[i].exc = "RuntimeError"
              /\ res' = res /\ ns' = ns /\ fits' = fits
        /\ (Done(i) /\ fr[i].exc = "RuntimeError" /\ fr'[i] # fr[i]) =>
              /\ fr'[i].pc = "idle" /\ fits' = fits /\ res' = res]_vars

C5_Witness ==
    \E i \in Procs :
        /\ Done(i) /\ fr[i].info = 5 /\ fr[i].nfev >= MaxFev
        /\ fr[i].exc = "RuntimeError"
        /\ ~res[i].bound

C7_FitHasNoSideEffects ==
    [][\A i \in Procs :
        (InFit(fr[i]) /\ fr'[i] # fr[i]) =>
            /\ heap' = heap /\ heap'[i] = call[i]
            /\ call' = call /\ ns' = ns
            /\ \A j \in Procs \ {i} : res'[j] = res[j] /\ fr'[j] = fr[j]
            /\ fr[i].pc # "finish" => res' = res]_vars

C7_Witness ==
    \E i \in Procs :
        /\ Done(i) /\ fr[i].exc = "ok"
        /\ call[i].p0.given /\ fr[i].x # call[i].p0.v
        /\ heap[i] = call[i]

(***************************************************************************)
(* C8.  Two fits called with equal arguments end with equal outcomes,      *)
(* whatever fits ended before them and whatever the kernel's globals hold. *)
(***************************************************************************)
C8_EqualArgumentsEqualOutcome ==
    \A m1 \in memo : \A m2 \in memo : m1[1] = m2[1] => m1[2] = m2[2]

\* caller 1 has fitted the same data twice, the second time after the cell
\* ustar = p[0]; zo = p[1] had run on the first result
C8_Witness ==
    /\ fits = 2 /\ fr[2] = NoFrame
    /\ Done(1) /\ fr[1].exc = "ok"
    /\ ns.bound /\ res[1].bound
    /\ <<call[1], Outcome(1)>> \in memo

(***************************************************************************)
(* C9.  A fit that ran while another fit was running ends with the outcome *)
(* the same call has when it runs alone.                                   *)
(***************************************************************************)
C9_InterleavedAsAlone ==
    \A i \in Procs : (Done(i) /\ i \in par) => Outcome(i) = Alone(call[i])

C9_Witness ==
    /\ par = Procs
    /\ \A i \in Procs : Done(i) /\ fr[i].exc = "ok" /\ fr[i].iter > 1
    /\ call[1] # call[2]

(***************************************************************************)
(* C10.  A sample set that the iteration works on, or for which a fit      *)
(* returns a result, has as many x as y samples and at least as many       *)
(* samples as parameters.  The y of one sample that C3 lets through is     *)
(* such a set, so this does not hold.                                      *)
(***************************************************************************)
C10_SampleSetInvariant ==
    \A i \in Procs :
        (Iterating(i) \/ (Done(i) /\ fr[i].exc = "ok")) =>
            /\ Len(call[i].z) = Len(call[i].u)
            /\ Len(call[i].z) >= fr[i].n

IsSquare(M, n) == Len(M) = n /\ \A j \in 1..Len(M) : Len(M[j]) = n

(***************************************************************************)
(* C11.  What a successful fit binds is a parameter vector of as many      *)
(* entries as loglayer has parameters (2) and a covariance matrix of that  *)
(* many rows and columns, whether its entries are finite or inf.           *)
(***************************************************************************)
C11_ResultShape ==
    \A i \in Procs :
        res[i].bound => Len(res[i].p) = NParams /\ IsSquare(res[i].pcov, NParams)

C11_Witness ==
    \E i \in Procs :
        /\ Done(i) /\ fr[i].exc = "ok" /\ res[i].bound
        /\ res[i].p = fr[i].x
        /\ \A j \in 1..NParams : IsNum(res[i].pcov[j][j])

(***************************************************************************)
(* C12.  A fit that iterates was called with a guess of the caller's, of   *)
(* as many entries as loglayer has parameters, and started from it.  The   *)
(* notebook's call passes no guess and curve_fit starts from ones, so this *)
(* does not hold.                                                          *)
(***************************************************************************)
C12_StartsFromCallersGuess ==
    \A i \in Procs :
        Iterating(i) =>
            /\ call[i].p0.given
            /\ Len(call[i].p0.v) = NParams
            /\ fr[i].iter = 1 => fr[i].x = call[i].p0.v

(***************************************************************************)
(* C13.  loglayer is pure.  The residuals a fit holds for its point x are  *)
(* the values loglayer gives for the same z, ustar, zo when it is          *)
(* evaluated again, whatever the kernel's globals have become meanwhile,   *)
(* and a step that evaluates loglayer leaves the arrays passed to it and   *)
(* the kernel's globals as they were.                                      *)
(***************************************************************************)
C13_LoglayerIsPure ==
    [][\A i \in Procs :
        /\ Iterating(i) =>
              fr[i].fvec = func_wrapped(call[i].z, call[i].u, fr[i].x)
        /\ (fr[i].pc \in {"leastsq", "fdjac2", "lmpar"} /\ fr'[i] # fr[i]) =>
              /\ heap'[i] = heap[i] /\ ns' = ns
              /\ fr'[i].evals >= fr[i].evals]_vars

\* a fit is between two evaluations while the cell ustar = p[0]; zo = p[1]
\* has bound the globals to other values than the fit's point
C13_Witness ==
    \E i \in Procs :
        /\ Iterating(i) /\ fr[i].evals > 3
        /\ ns.bound /\ <<ns.ustar, ns.zo>> # fr[i].x
        /\ AllNum(fr[i].fvec)

(***************************************************************************)
(* Noiseless samples: u = loglayer(z, ustar, zo) on the notebook's heights *)
(* for a generating (ustar, zo), fitted from guesses around it and, by     *)
(* caller 2, also from a guess of the wrong length.                        *)
(***************************************************************************)
Gens == { <<77, 5>>, <<60, 10>>, <<100, 3>> }
Offsets == { <<0, 0>>, <<3, 0>>, <<-4, 1>>, <<10, 2>>, <<0, -2>>, <<25, 4>> }
Synthetic(g) == loglayer(Literal.z, g[1], g[2])

SynthArgs(i) ==
    IF i = 1
    THEN { [z |-> Literal.z, u |-> Synthetic(g),
            p0 |-> Guess(<<g[1] + d[1], g[2] + d[2]>>)] : g \in Gens, d \in Offsets }
    ELSE [z : {Literal.z}, u : {Synthetic(<<77, 5>>)},
          p0 : {Guess(<<80, 5>>), Guess(<<80, 5, 20>>)}]

SynthInit ==
    /\ heap \in {h \in [Procs -> UNION {SynthArgs(i) : i \in Procs}] :
                    \A i \in Procs : h[i] \in SynthArgs(i)}
    /\ call = heap
    /\ fr = [i \in Procs |-> NoFrame]
    /\ res = [i \in Procs |-> Unbound]
    /\ ns = [bound |-> FALSE, ustar |-> 0, zo |-> 0]
    /\ memo = {}
    /\ fits = 0
    /\ par = {}
    /\ tick = [i \in Procs |-> FALSE]
    /\ kernel = Idle
    /\ disk = <<>>

SynthSpec == SynthInit /\ [][Next]_vars

ZeroMatrix == [j \in 1..NParams |-> [k \in 1..NParams |-> 0]]
GenOf(a) == {g \in Gens : a.u = Synthetic(g)}

C16_CallerSeesNothingOrAll ==
    [][/\ \A i \in Procs :
            res'[i] # res[i] =>
                /\ fr[i].pc = "finish" /\ fr'[i].pc = "done" /\ fr'[i].exc = "ok"
                /\ res'[i].bound
                /\ res'[i].p = fr[i].x
                /\ IsSquare(res'[i].pcov, NParams)
       /\ ns' # ns =>
            \E i \in Procs :
                /\ Done(i) /\ fr[i].exc = "ok" /\ res[i].bound
                /\ res' = res
                /\ ns' = [bound |-> TRUE, ustar |-> res[i].p[1], zo |-> res[i].p[2]]]_vars

\* a second fit of caller 1 is under way, past its first iterate, and p
\* still holds the result of the first fit
C16_Witness ==
    /\ Iterating(1) /\ fr[1].iter > 1
    /\ res[1].bound /\ res[1].p # fr[1].x
    /\ ns.bound

(***************************************************************************)
(* C17.  A fit never ends worse than it started.  While a fit iterates,    *)
(* every step leaves its sum of squared residuals equal or smaller, and    *)
(* the point a successful fit returns has a sum of squares no larger than  *)
(* that of its starting point (where the starting point has no finite sum  *)
(* of squares, the fit returns the starting point itself).                 *)
(***************************************************************************)
RSS(a, x) == Cost(func_wrapped(a.z, a.u, x))

C17_NeverWorseThanStart ==
    [][\A i \in Procs :
        /\ (Iterating(i) /\ fr'[i].pc \in {"fdjac2", "lmpar", "finish"} /\ IsNum(fr[i].c))
              => IsNum(fr'[i].c) /\ fr'[i].c <= fr[i].c
        /\ (Done(i) /\ fr[i].exc = "ok" /\ res[i].bound) =>
              \E c0 \in {RSS(call[i], StartPoint(call[i].p0))} :
                 IF IsNum(c0)
                 THEN \E c1 \in {RSS(call[i], res[i].p)} : IsNum(c1) /\ c1 <= c0
                 ELSE res[i].p = StartPoint(call[i].p0)]_vars

\* a fit has returned a point other than its start, and strictly better
C17_Witness ==
    \E i \in Procs :
        /\ Done(i) /\ fr[i].exc = "ok" /\ res[i].bound
        /\ res[i].p # StartPoint(call[i].p0)
        /\ IsNum(RSS(call[i], StartPoint(call[i].p0)))
        /\ RSS(call[i], res[i].p) < RSS(call[i], StartPoint(call[i].p0))
        /\ fr[i].iter > 2

(***************************************************************************)
(* The notebook session at the resolution of its recorded outputs.         *)
(* Fine values are integers in units of 1/Fine (1e-5): heights, speeds,    *)
(* parameters and logarithms.  Sums of squares of the Jacobian are in      *)
(* units of 1/1000 and covariances in units of 1e-8, the eight decimals    *)
(* the notebook prints for pcov.  Products are formed without overflow.    *)
(***************************************************************************)
Fine == 100000
Ln2Micro == 693147
FineKappa == 41000

\* the radix of the long multiplication modulo c: radix * 2c stays an integer of 32 bits
Radix(c) == Max(2, Inf \div (2 * c))

\* <<q, r>> for R times the product h = <<q, r>>, plus add
MulCarry(h, add, c, R) == <<R * h[1] + (R * h[2] + add) \div c, (R * h[2] + add) % c>>

RECURSIVE MulRem(_, _, _, _)
\* <<q, r>> with a*b = q*c + r and 0 <= r < c, for 0 <= a < c and b >= 0
MulRem(a, b, c, R) ==
    IF b = 0 THEN <<0, 0>>
    ELSE One({ MulCarry(h, (b % R) * a, c, R) : h \in {MulRem(a, b \div R, c, R)} })

\* a*b/c rounded toward zero, for c > 0
MulDiv(a, b, c) ==
    One({ IF (x < 0) # (y < 0)
          THEN -((Abs(x) \div c) * Abs(y) + MulRem(Abs(x) % c, Abs(y), c, Radix(c))[1])
          ELSE (Abs(x) \div c) * Abs(y) + MulRem(Abs(x) % c, Abs(y), c, Radix(c))[1]
          : x \in {a}, y \in {b} })

\* x*y for fine values x, y
FineMul(x, y) == MulDiv(x, y, Fine)

\* Fine * ln(m/d) for d <= m < 2d, by 2*atanh(t), t = (m-d)/(m+d) < 1/3
FineLnMantissa(m, d) ==
    One({ One({ One({ One({ One({ One({
        2 * t + (2 * t3) \div 3 + (2 * t5) \div 5 + (2 * t7) \div 7 + (2 * t9) \div 9
        : t9 \in {FineMul(t7, t2)} }) : t7 \in {FineMul(t5, t2)} })
        : t5 \in {FineMul(t3, t2)} }) : t3 \in {FineMul(t, t2)} })
        : t2 \in {FineMul(t, t)} }) : t \in {MulDiv(m - d, Fine, m + d)} })

RECURSIVE Halvings(_, _, _)
\* <<m, e, k>> with n/d = 2^k * m/e and e <= m < 2e
Halvings(n, d, k) ==
    IF n >= 2 * d THEN Halvings(n, 2 * d, k + 1)
    ELSE IF n < d THEN Halvings(2 * n, d, k - 1)
    ELSE <<n, d, k>>

\* Fine * ln(n/d) for integers n, d > 0: np.log on a positive ratio
FineLn(n, d) ==
    One({ (h[3] * Ln2Micro) \div 10 + FineLnMantissa(h[1], h[2]) : h \in {Halvings(n, d, 0)} })

RECURSIVE ExpSeries(_, _)
\* Fine * (1 + f/j * (1 + f/(j+1) * (1 + ...))), the series of exp to the ninth power
ExpSeries(f, j) ==
    IF j > 9 THEN Fine
    ELSE Fine + One({ MulDiv(f, e, j * Fine) : e \in {ExpSeries(f, j + 1)} })

\* Fine * exp(t/Fine) for -11 <= t/Fine <= 5: 2^k * exp(f) with f = t - k*ln 2
FineExp(t) ==
    One({ One({ IF k >= 0 THEN e * 2^k ELSE e \div 2^(-k)
                : e \in {ExpSeries(t - (k * Ln2Micro) \div 10, 1)} })
          : k \in {(10 * Clip(t, -11 * Fine, 5 * Fine)) \div Ln2Micro} })

RECURSIVE FineSqrtIn(_, _, _)
\* the largest w in lo..hi-1 with w*w <= v
FineSqrtIn(lo, hi, v) ==
    IF hi - lo <= 1 THEN lo
    ELSE One({ IF mid * mid <= v THEN FineSqrtIn(mid, hi, v) ELSE FineSqrtIn(lo, mid, v)
               : mid \in {(lo + hi) \div 2} })

\* np.sqrt of a covariance entry v (1e-8), as a fine value; nan below zero
FineSqrt(v) == IF ~IsNum(v) THEN v ELSE IF v < 0 THEN NaN ELSE FineSqrtIn(0, 46340, 100 * v)

(***************************************************************************)
(* loglayer at one height, fine values.                                    *)
(***************************************************************************)
FineLogLaw(z, ustar, zo) ==
    IF zo = 0 THEN Inf
    ELSE IF z = 0 THEN Inf
    ELSE IF (z < 0) # (zo < 0) THEN NaN
    ELSE MulDiv(ustar, FineLn(Abs(z), Abs(zo)), FineKappa)

fine_loglayer(z, ustar, zo) == [i \in 1..Len(z) |-> FineLogLaw(z[i], ustar, zo)]

Mean(s) == SumTo(s, Len(s)) \div Len(s)
FineDot(s, t) == SumTo([i \in 1..Len(s) |-> MulDiv(s[i], t[i], Fine)], Len(s))

(***************************************************************************)
(* The point curve_fit converges to: the minimiser of the sum of squares.  *)
(* u = A*ln z + B with A = ustar/0.41 and B = -A*ln zo is a straight line  *)
(* in ln z, so the minimiser is the regression of u on ln z.               *)
(***************************************************************************)
Centred(s) == One({ [i \in 1..Len(s) |-> s[i] - c] : c \in {Mean(s)} })
LnOf(z) == One({ x : x \in {[i \in 1..Len(z) |-> FineLn(z[i], Fine)]} })

popt(z, u) ==
    One({ One({ << MulDiv(A, FineKappa, Fine), FineExp(Mean(x) - MulDiv(Mean(u), Fine, A)) >>
                : A \in {MulDiv(FineDot(Centred(x), Centred(u)), Fine,
                                FineDot(Centred(x), Centred(x)))} })
          : x \in {LnOf(z)} })

(***************************************************************************)
(* pcov = inv(J^T J) * s_sq with s_sq = sum of squares / (M - N) and J the *)
(* Jacobian of the residuals at p.                                         *)
(***************************************************************************)
fine_residuals(z, u, p) == [i \in 1..Len(z) |-> FineLogLaw(z[i], p[1], p[2]) - u[i]]

fine_jac(z, p) ==
    << [i \in 1..Len(z) |-> MulDiv(FineLn(z[i], p[2]), Fine, FineKappa)],
       [i \in 1..Len(z) |-> -MulDiv(MulDiv(p[1], Fine, FineKappa), Fine, p[2])] >>

\* sum of s[i]*t[i], fine values, in units of 1/1000
FineDot3(s, t) == SumTo([i \in 1..Len(s) |-> MulDiv(s[i], t[i], 100 * Fine)], Len(s))
\* sum of squares of fine values, in units of 1e-8
fine_cost(r) == SumTo([i \in 1..Len(r) |-> MulDiv(r[i], r[i], 100)], Len(r))
s_sq(r, n) == fine_cost(r) \div (Len(r) - n)

\* J^T J as <<J1.J1, J1.J2, J2.J2>>
fine_jtj(J) == <<FineDot3(J[1], J[1]), FineDot3(J[1], J[2]), FineDot3(J[2], J[2])>>

fine_pcov(z, u, p) ==
    One({ One({ One({ << << MulDiv(s2, N[3], 1000 * det), -MulDiv(s2, N[2], 1000 * det) >>,
                         << -MulDiv(s2, N[2], 1000 * det), MulDiv(s2, N[1], 1000 * det) >> >>
                      : s2 \in {s_sq(fine_residuals(z, u, p), NParams)} })
                : det \in {MulDiv(N[1], N[3], 1000000) - MulDiv(N[2], N[2], 1000000)} })
          : N \in {fine_jtj(fine_jac(z, p))} })

(***************************************************************************)
(* The two notebooks as sessions of a kernel.  A session runs the code     *)
(* cells of one notebook; the user may run any cell at any time (the       *)
(* execution counts recorded in the law-of-the-wall notebook are not in    *)
(* document order) and may restart the kernel.  A cell that reads a name   *)
(* the kernel does not hold raises NameError and binds nothing.            *)
(***************************************************************************)
Notebooks == {"wall", "diatom"}

ImportsCell == [op |-> "imports", reads |-> {},
                binds |-> {"np", "plt", "pd", "stats", "curve_fit"}]

\* the code cells of the law-of-the-wall notebook, in document order
WallCells == <<
    ImportsCell,
    [op |-> "df",          reads |-> {"pd", "np"},                   binds |-> {"df"}],
    [op |-> "plot_data",   reads |-> {"plt", "df"},                  binds |-> {}],
    [op |-> "def",         reads |-> {},                             binds |-> {"loglayer"}],
    [op |-> "fit",         reads |-> {"curve_fit", "loglayer", "df", "np"},
                                                                     binds |-> {"p", "pcov"}],
    [op |-> "show_pcov",   reads |-> {"pcov"},                       binds |-> {}],
    [op |-> "ustar_zo",    reads |-> {"p"},                          binds |-> {"ustar", "zo"}],
    [op |-> "show_ustar",  reads |-> {"ustar"},                      binds |-> {}],
    [op |-> "show_zo",     reads |-> {"zo"},                         binds |-> {}],
    [op |-> "grid",        reads |-> {"np", "zo"},                   binds |-> {"z"}],
    [op |-> "plot_fit",    reads |-> {"plt", "df", "loglayer", "np", "z", "ustar", "zo"},
                                                                     binds |-> {}],
    [op |-> "show_zo",     reads |-> {"zo"},                         binds |-> {}],
    [op |-> "sigma_zo",    reads |-> {"np", "pcov"},                 binds |-> {}],
    [op |-> "print_ustar", reads |-> {"ustar", "np", "pcov"},        binds |-> {}],
    [op |-> "print_zo",    reads |-> {"zo", "np", "pcov"},           binds |-> {}],
    [op |-> "empty",       reads |-> {},                             binds |-> {}] >>

\* the code cells of the diatom notebook, in document order
DiatomCells == <<
    ImportsCell,
    [op |-> "read_tables", reads |-> {"pd"},                         binds |-> {"df1", "df2"}],
    [op |-> "empty",       reads |-> {},                             binds |-> {}] >>

\* notebooks whose first cell leaves out the import of curve_fit
CellsOf_unimported(nb) ==
    [k \in 1..Len(IF nb = "wall" THEN WallCells ELSE DiatomCells) |->
        IF k = 1 THEN [ImportsCell EXCEPT !.binds = @ \ {"curve_fit"}]
        ELSE (IF nb = "wall" THEN WallCells ELSE DiatomCells)[k]]

CellsOf(nb) == IF nb = "wall" THEN WallCells ELSE DiatomCells

\* df['z(cm)'] and df['u(cm/s)'] as fine values
FineData == [z |-> [i \in 1..Len(Literal.z) |-> Literal.z[i] * Fine],
             u |-> [i \in 1..Len(Literal.u) |-> Literal.u[i] * (Fine \div Scale)]]

\* np.linspace(start, stop, num): num points, start + i*(stop - start)/(num - 1)
linspace(start, stop, num) ==
    [i \in 1..num |-> start + MulDiv(i - 1, stop - start, num - 1)]

\* a grid that starts at the wall instead of at zo
GridStart_wall(zo) == 0

GridStart(zo) == zo
GridStop == 130
GridNum == 1000

\* np.sqrt(pcov[j,j]) for the other parameter
Sigma_other(pcov, j) == FineSqrt(pcov[NParams + 1 - j][NParams + 1 - j])

\* np.sqrt(pcov[j,j]), j counted from 1
Sigma(pcov, j) == FineSqrt(pcov[j][j])

(***************************************************************************)
(* pd.read_table(path, skiprows=n) on a file given as its lines: the first *)
(* n lines are dropped, the next line names the columns, the lines after   *)
(* it are the rows.  Nothing left after the dropped lines: EmptyDataError. *)
(***************************************************************************)
Parsed(rest) ==
    IF rest = <<>> THEN [exc |-> "EmptyDataError", columns |-> <<>>, rows |-> <<>>]
    ELSE [exc |-> "ok", columns |-> Head(rest), rows |-> Tail(rest)]

\* read_table without its skiprows argument
read_table_noskip(lines, skiprows) == Parsed(lines)

read_table(lines, skiprows) == Parsed(SubSeq(lines, skiprows + 1, Len(lines)))

SkipRows == 1
FileNames == <<"growth_data/B7-1.txt", "growth_data/B7-2.txt">>

\* the files an experiment may have left: a header row, then with or
\* without a row of column names, then up to MaxRows samples
MaxRows == 3
HeaderRow == <<"B7 fluorescence">>
NamesRow == <<"day", "fluorescence">>
SampleRow(k) == <<ToString(k), ToString(10 * k + 3)>>
Files ==
    { <<HeaderRow>> \o names \o [k \in 1..n |-> SampleRow(k)]
      : names \in {<<>>, <<NamesRow>>}, n \in 0..MaxRows }

NoFrameYet == [exc |-> "unbound", columns |-> <<>>, rows |-> <<>>]
NoValues ==
    [df |-> [z |-> <<>>, u |-> <<>>], p |-> <<>>, pcov |-> <<>>, ustar |-> 0, zo |-> 0,
     z |-> <<>>, df1 |-> NoFrameYet, df2 |-> NoFrameYet]

\* a fresh kernel: no name bound, the first cell is next in document order
Fresh(nb) ==
    [nb |-> nb, names |-> {}, val |-> NoValues, next |-> 1, last |-> 0,
     exc |-> "none", out |-> <<>>]

NbInit ==
    /\ heap = [i \in Procs |-> [z |-> Literal.z, u |-> Literal.u, p0 |-> NoGuess]]
    /\ call = heap
    /\ fr = [i \in Procs |-> NoFrame]
    /\ res = [i \in Procs |-> Unbound]
    /\ ns = [bound |-> FALSE, ustar |-> 0, zo |-> 0]
    /\ memo = {}
    /\ fits = 0
    /\ par = {}
    /\ tick = [i \in Procs |-> FALSE]
    /\ \E nb \in Notebooks :
          /\ kernel = Fresh(nb)
          /\ IF nb = "diatom" THEN disk \in [1..Len(FileNames) -> Files]
             ELSE disk = [f \in 1..Len(FileNames) |-> <<HeaderRow>>]

\* the cells run so far are the first next-1 cells in document order, or next = 0
After(k) == IF kernel.next = k THEN k + 1 ELSE 0

\* the values a cell leaves bound, from the values v the kernel holds
Bind(op, v) ==
    IF op = "df" THEN [v EXCEPT !.df = FineData]
    ELSE IF op = "fit"
         THEN One({ [v EXCEPT !.p = q, !.pcov = fine_pcov(v.df.z, v.df.u, q)]
                    : q \in {popt(v.df.z, v.df.u)} })
    ELSE IF op = "ustar_zo" THEN [v EXCEPT !.ustar = v.p[1], !.zo = v.p[2]]
    ELSE IF op = "grid" THEN [v EXCEPT !.z = linspace(GridStart(v.zo), GridStop * Fine, GridNum)]
    ELSE IF op = "read_tables"
         THEN One({ IF d1.exc # "ok" THEN v
                    ELSE One({ IF d2.exc # "ok" THEN [v EXCEPT !.df1 = d1]
                               ELSE [v EXCEPT !.df1 = d1, !.df2 = d2]
                               : d2 \in {read_table(disk[2], SkipRows)} })
                    : d1 \in {read_table(disk[1], SkipRows)} })
    ELSE v

\* what a cell shows: its last expression, its print, or the curves it plots
Show(op, v) ==
    IF op = "plot_data" THEN <<v.df.u, v.df.z>>
    ELSE IF op = "show_pcov" THEN v.pcov
    ELSE IF op = "show_ustar" THEN <<v.ustar>>
    ELSE IF op = "show_zo" THEN <<v.zo>>
    ELSE IF op = "plot_fit" THEN <<fine_loglayer(v.z, v.ustar, v.zo), v.z>>
    ELSE IF op = "sigma_zo" THEN <<Sigma(v.pcov, 2)>>
    ELSE IF op = "print_ustar" THEN <<v.ustar - Sigma(v.pcov, 1), v.ustar + Sigma(v.pcov, 1)>>
    ELSE IF op = "print_zo" THEN <<v.zo - Sigma(v.pcov, 2), v.zo + Sigma(v.pcov, 2)>>
    ELSE <<>>

\* the exception a cell ends with once the names it reads are bound
Raises(op) ==
    IF op = "read_tables" /\ \E f \in 1..Len(FileNames) : read_table(disk[f], SkipRows).exc # "ok"
    THEN "EmptyDataError" ELSE "ok"

\* the names a cell has bound when it ends
Bound(c) ==
    IF c.op # "read_tables" \/ Raises(c.op) = "ok" THEN c.binds
    ELSE IF read_table(disk[1], SkipRows).exc = "ok" THEN {"df1"} ELSE {}

CellRuns(k) ==
    /\ k \in 1..Len(CellsOf(kernel.nb))
    /\ \E c \in {CellsOf(kernel.nb)[k]} :
          /\ c.reads \subseteq kernel.names
          /\ kernel' = [kernel EXCEPT !.names = @ \cup Bound(c),
                                      !.val = Bind(c.op, @),
                                      !.out = Show(c.op, kernel.val),
                                      !.exc = Raises(c.op),
                                      !.last = k,
                                      !.next = After(k)]
    /\ UNCHANGED <<disk, heap, call, fr, res, ns, memo, fits, par, tick>>

CellNameError(k) ==
    /\ k \in 1..Len(CellsOf(kernel.nb))
    /\ ~(CellsOf(kernel.nb)[k].reads \subseteq kernel.names)
    /\ kernel' = [kernel EXCEPT !.out = <<>>, !.exc = "NameError", !.last = k,
                                !.next = After(k)]
    /\ UNCHANGED <<disk, heap, call, fr, res, ns, memo, fits, par, tick>>

Restart ==
    /\ kernel.last # 0
    /\ kernel' = Fresh(kernel.nb)
    /\ UNCHANGED <<disk, heap, call, fr, res, ns, memo, fits, par, tick>>

NbNext ==
    \/ \E k \in 1..Len(WallCells) : CellRuns(k)
    \/ \E k \in 1..Len(WallCells) : CellNameError(k)
    \/ Restart

NbSpec == NbInit /\ [][NbNext]_vars

\* the outputs the notebook holds from its recorded run: ustar, zo, pcov,
\* np.sqrt(pcov[1,1]) and the two printed intervals
Recorded ==
    [ustar |-> 393325, zo |-> 28419,
     pcov |-> << <<315322, 122070>>, <<122070, 47950>> >>,
     sigma_zo |-> 2190,
     ustar_interval |-> <<387710, 398940>>,
     zo_interval |-> <<26229, 30609>>]

Near(a, b, tol) == Abs(a - b) <= tol
WallOp(k) == WallCells[k].op
Ran(op) == kernel.nb = "wall" /\ kernel.last # 0 /\ WallOp(kernel.last) = op /\ kernel.exc = "ok"

(***************************************************************************)
(* C15.  The fit of the notebook's four samples.  Once the fit cell has    *)
(* run, p is a least-squares point of the samples (no point 0.001 away in  *)
(* either parameter has a smaller sum of squares), it is ustar = 3.93 and  *)
(* zo = 0.28 to two decimals, the square roots of the diagonal of pcov are *)
(* 0.056 and 0.022 to three decimals, and p and pcov agree with the        *)
(* recorded outputs.  The cell that shows a standard error of zo shows the *)
(* square root of pcov[1,1], the entry of zo, and the printed intervals    *)
(* are ustar and zo plus and minus the square root of their own entry.     *)
(***************************************************************************)
Moves == {<<100, 0>>, <<-100, 0>>, <<0, 100>>, <<0, -100>>,
          <<100, 100>>, <<-100, -100>>, <<100, -100>>, <<-100, 100>>}
CostAt(v, q) == fine_cost(fine_residuals(v.df.z, v.df.u, q))
\* w is the square root of the covariance entry c (1e-8), w a fine value
IsRootOf(w, c) == w >= 0 /\ w * w <= 100 * c /\ 100 * c < (w + 1) * (w + 1)

C15_LiteralFit ==
    (kernel.nb = "wall" /\ "p" \in kernel.names) =>
        \E v \in {kernel.val} :
            /\ v.df.z = <<2200000, 5500000, 8900000, 12300000>>
            /\ v.df.u = <<4180000, 5040000, 5500000, 5840000>>
            /\ \A d \in Moves : CostAt(v, v.p) <= CostAt(v, <<v.p[1] + d[1], v.p[2] + d[2]>>)
            /\ Near(v.p[1], 393000, 499) /\ Near(v.p[2], 28000, 499)
            /\ \E su \in 5550..5649 : IsRootOf(su, v.pcov[1][1])
            /\ \E sz \in 2150..2249 : IsRootOf(sz, v.pcov[2][2])
            /\ Near(v.p[1], Recorded.ustar, 20) /\ Near(v.p[2], Recorded.zo, 20)
            /\ \A j, k \in 1..NParams :
                  Near(v.pcov[j][k], Recorded.pcov[j][k], Recorded.pcov[j][k] \div 500)
            /\ Ran("sigma_zo") =>
                  /\ IsRootOf(kernel.out[1], v.pcov[2][2])
                  /\ Near(kernel.out[1], Recorded.sigma_zo, 5)
            /\ Ran("print_ustar") =>
                  /\ IsRootOf(v.ustar - kernel.out[1], v.pcov[1][1])
                  /\ IsRootOf(kernel.out[2] - v.ustar, v.pcov[1][1])
                  /\ \A j \in 1..2 : Near(kernel.out[j], Recorded.ustar_interval[j], 20)
            /\ Ran("print_zo") =>
                  /\ IsRootOf(v.zo - kernel.out[1], v.pcov[2][2])
                  /\ IsRootOf(kernel.out[2] - v.zo, v.pcov[2][2])
                  /\ \A j \in 1..2 : Near(kernel.out[j], Recorded.zo_interval[j], 20)

\* the cells were run in document order up to the printed interval of zo
C15_Witness ==
    /\ Ran("print_zo") /\ kernel.next = 16
    /\ kernel.val.p = <<kernel.val.ustar, kernel.val.zo>>
    /\ kernel.out[1] < kernel.val.zo /\ kernel.val.zo < kernel.out[2]

(***************************************************************************)
(* C18.  A notebook run in document order from a fresh kernel never reads  *)
(* a name before a cell has bound it: no cell ends in NameError, and the   *)
(* names the next cell reads are bound.  In the law-of-the-wall notebook   *)
(* the fit stands before the cell that reads ustar and zo from p, and the  *)
(* cell that builds the grid z stands before the cell that plots on it.    *)
(***************************************************************************)
InOrder == kernel.next # 0
Place(cells, op) == CHOOSE k \in 1..Len(cells) :
                        cells[k].op = op /\ \A j \in 1..(k - 1) : cells[j].op # op

C18_DocumentOrderBindsBeforeUse ==
    InOrder =>
        \E cells \in {CellsOf(kernel.nb)} :
            /\ kernel.exc # "NameError"
            /\ kernel.next <= Len(cells) => cells[kernel.next].reads \subseteq kernel.names
            /\ kernel.nb = "wall" =>
                  /\ Place(cells, "fit") < Place(cells, "ustar_zo")
                  /\ Place(cells, "ustar_zo") < Place(cells, "grid")
                  /\ Place(cells, "grid") < Place(cells, "plot_fit")

\* every cell of the law-of-the-wall notebook has run, in document order
C18_Witness ==
    /\ kernel.nb = "wall" /\ kernel.next = Len(WallCells) + 1
    /\ kernel.exc = "ok"
    /\ {"p", "pcov", "ustar", "zo", "z"} \subseteq kernel.names

(***************************************************************************)
(* C19.  The grid of the fitted curve stays inside the domain of the       *)
(* model.  The grid built from a zo with 0 < zo <= 130 starts at zo, ends  *)
(* at 130 and has no point below zo; and when the curve is plotted every   *)
(* grid point z has z/zo >= 1, so that every logarithm is taken of a       *)
(* positive number and every plotted speed is a number, none negative.     *)
(***************************************************************************)
C19_GridInsideDomain ==
    (kernel.nb = "wall" /\ "z" \in kernel.names) =>
        \E v \in {kernel.val} :
            /\ (0 < v.z[1] /\ v.z[1] <= GridStop * Fine) =>
                  /\ Len(v.z) = GridNum
                  /\ v.z[1] = v.zo /\ v.z[GridNum] = GridStop * Fine
                  /\ \A i \in 1..GridNum : v.z[i] >= v.z[1] /\ v.z[i] <= GridStop * Fine
            /\ (Ran("plot_fit") /\ 0 < v.zo /\ v.zo <= GridStop * Fine) =>
                  /\ \A i \in 1..GridNum : v.z[i] >= v.zo
                  /\ \A i \in 1..GridNum : IsNum(kernel.out[1][i]) /\ kernel.out[1][i] >= 0
                  /\ kernel.out[1][1] = 0

\* the fitted curve has been plotted on a grid that starts at a fitted zo in range
C19_Witness ==
    /\ Ran("plot_fit")
    /\ 0 < kernel.val.zo /\ kernel.val.zo <= GridStop * Fine
    /\ kernel.val.z[1] = kernel.val.zo
    /\ kernel.out[1][GridNum] > kernel.out[1][1]

(***************************************************************************)
(* C20.  Reading the experiment files.  The first line of a file, its      *)
(* header row, is in the frame neither as a sample nor as the column       *)
(* names: the samples of a frame are the lines of its file from the third  *)
(* on, in order.  Both frames are read by this rule, so equal files give   *)
(* equal frames.                                                           *)
(***************************************************************************)
FrameOf(f) == IF f = 1 THEN kernel.val.df1 ELSE kernel.val.df2
NameOf(f) == IF f = 1 THEN "df1" ELSE "df2"

C20_HeaderRowIsSkipped ==
    kernel.nb = "diatom" =>
        /\ \A f \in 1..Len(FileNames) :
              NameOf(f) \in kernel.names =>
                  /\ FrameOf(f).exc = "ok"
                  /\ FrameOf(f).columns # disk[f][1]
                  /\ \A r \in 1..Len(FrameOf(f).rows) : FrameOf(f).rows[r] # disk[f][1]
                  /\ FrameOf(f).rows = SubSeq(disk[f], 3, Len(disk[f]))
        /\ ({"df1", "df2"} \subseteq kernel.names /\ disk[1] = disk[2])
              => kernel.val.df1 = kernel.val.df2

\* both files were read, they differ, and each frame holds samples
C20_Witness ==
    /\ kernel.nb = "diatom" /\ kernel.exc = "ok" /\ kernel.last = 2
    /\ {"df1", "df2"} \subseteq kernel.names
    /\ disk[1] # disk[2]
    /\ Len(kernel.val.df1.rows) >= 2 /\ Len(kernel.val.df2.rows) >= 1
    /\ disk[1][2] = NamesRow /\ kernel.val.df1.columns = NamesRow

(***************************************************************************)
(* The figure of a plot cell.  plt.plot(a, b, fmt) draws a along the       *)
(* horizontal axis and b along the vertical axis; plt.xlabel names the     *)
(* horizontal axis and plt.ylabel the vertical one.                        *)
(***************************************************************************)
PlotLines(op, v) ==
    IF op = "plot_data" THEN << [x |-> v.df.u, y |-> v.df.z] >>
    ELSE IF op = "plot_fit"
         THEN << [x |-> v.df.u, y |-> v.df.z],
                 [x |-> fine_loglayer(v.z, v.ustar, v.zo), y |-> v.z] >>
    ELSE <<>>

Figure(op, v) == [lines |-> PlotLines(op, v), xlabel |-> "z (cm)", ylabel |-> "u (cm/s)"]

\* the heights and the speeds a plot cell has at hand: samples and curve
Heights(v) == {v.df.z, v.z}
Speeds(v) == {v.df.u, fine_loglayer(v.z, v.ustar, v.zo)}

\* what the axis with a given label carries, line by line
Carried(f, label) ==
    IF f.xlabel = label THEN {f.lines[k].x : k \in 1..Len(f.lines)}
    ELSE IF f.ylabel = label THEN {f.lines[k].y : k \in 1..Len(f.lines)}
    ELSE {}

(***************************************************************************)
(* C21.  In the figure of either plot cell the axis labelled z (cm)        *)
(* carries heights and nothing else, and the axis labelled u (cm/s)        *)
(* carries speeds and nothing else, for the samples and for the curve.     *)
(***************************************************************************)
C21_AxisLabelsNameTheirQuantity ==
    \A op \in {"plot_data", "plot_fit"} :
        Ran(op) =>
            \E f \in {Figure(op, kernel.val)} :
                /\ Carried(f, "z (cm)") # {} /\ Carried(f, "z (cm)") \subseteq Heights(kernel.val)
                /\ Carried(f, "u (cm/s)") # {} /\ Carried(f, "u (cm/s)") \subseteq Speeds(kernel.val)
====
